---------------------------- MODULE Spec2Model ----------------------------
(***************************************************************************)
(* The choreographed consistency protocol of the ticketing platform:       *)
(* services that own one entity each, replicate it through versioned       *)
(* events on a bus with at-least-once delivery, and drive the order /      *)
(* ticket / payment / expiration workflow from those events.               *)
(*                                                                         *)
(*   SpecReplica  ticket replication: the tickets service updates its      *)
(*                ticket and publishes TicketUpdated; the orders service's *)
(*                ticket-updated-listener applies the events to its copy.  *)
(*   FairReplica  SpecReplica with fair redelivery.                        *)
(*   Spec         the order workflow: reserve, pay, expire, cancel.        *)
(*   SpecTickets  the tickets service's side of the workflow.              *)
(*   SpecPay      the payments route under concurrent requests.            *)
(*   SpecOutbox   the transactional outbox of ADR-002: write path, relay   *)
(*                worker, dead letters, crashes; FairOutbox with a fair    *)
(*                worker; SpecRelays with two workers on one outbox.       *)
(*   SpecWriters  two writers of one versioned entity.                     *)
(*   SpecProcess  the orders service as a process with its listener.       *)
(*   SpecGroups   consumer groups and redelivery after ackWait.            *)
(*   FairTickets  SpecTickets with fair delivery and fair jobs.            *)
(*   SpecExpiration  the expiration listener and its delayed queue.        *)
(*   SpecExpiry   the expiry of an unpaid order, with the expiration       *)
(*                service stopping and starting; FairExpiry.               *)
(*   SpecShutdown the connection to the bus, signals, the close event;     *)
(*                FairShutdown.                                            *)
(*   SpecStartup  start(): connect loops with waits; FairStartup.          *)
(*   SpecReserve  concurrent requests to reserve the ticket.               *)
(***************************************************************************)
EXTENDS Naturals, Integers, Sequences, FiniteSets, TLC

(* ------------------------------ bounds --------------------------------- *)

\* highest version the authoritative ticket reaches by direct updates
MaxVersion == 3
\* redeliveries of an already acknowledged message the bus may make
MaxDup == 1
\* payment requests the payments service receives
MaxReq == 1

Prices == {10, 20}
Orders == {"o1", "o2"}
NoOrder == "none"
Users == {"u1", "u2"}
\* every order of the model is placed by this user
Owner == "u1"
\* retries of a failing publish before a record is dead-lettered
\* (MAX_RETRIES = 10 in the relay worker, scaled down)
MAX_RETRIES == 2
\* records a relay cycle takes (BATCH_SIZE = 100 in the relay worker, scaled down)
BATCH_SIZE == 2
\* OutboxRecords written
MaxRec == 3
\* process crashes
MaxCrash == 1

\* payment requests: MaxReq of them in the order workflow, one more where
\* requests for the same order run concurrently
Reqs == 1..(MaxReq + 1)

VARIABLES
    \* ---- event bus (NATS Streaming) ----
    pool,       \* messages delivered to a group and not acknowledged
    acked,      \* messages a group has acknowledged
    dups,       \* redeliveries of acknowledged messages made so far
    \* ---- tickets service ----
    ticket,     \* the authoritative ticket: version, price, orderId
    \* ---- orders service ----
    replica,    \* the orders service's copy of the ticket: version, price
    order,      \* order id -> status, version
    \* ---- payments service ----
    porder,     \* the payments service's copy of the orders
    payments,   \* order id -> number of Payment records
    charges,    \* order id -> number of gateway charge calls
    req,        \* payment request -> pc, order, status read
    \* ---- expiration service ----
    jobs,       \* order id -> delayed jobs in the queue
    \* ---- observation of the listeners ----
    applied,    \* versions applied to the replica, in order
    withheld,   \* versions of the events the listener left unacknowledged
    last,       \* the last handling of a message: the message, the outcome,
                \* and the entity's version (local) and state (pre) before it
    \* ---- transactional outbox (orders service) ----
    tx,         \* the write path's session: pc, order, staged status and version
    outbox,     \* record id -> the OutboxRecord
    dlq,        \* record id -> entries in the dead-letter store
    relay,      \* relay worker -> pc, the batch in memory, the record at hand
    sent,       \* record id -> the versions published to the bus, in order
    hist,       \* record id -> the entity's version right after its mutation
    crashes,    \* process crashes: how many, and whether one of them caught
                \* the write path with its transaction staged
    \* ---- concurrent writers of the ticket (tickets service) ----
    wr,         \* writer -> pc, the version it read, the price it writes
    accepts,    \* the accepted writes: writer and the version it had read
    \* ---- the orders service's process ----
    proc,       \* "running", or "exited" after process.exit(1)
    \* ---- consumer groups of the OrderCreated subject ----
    sub,        \* group, message -> delivery state, the instances handling it
    \* ---- expiration service: the delayed queue ----
    queue,      \* the jobs added to expirationQueue: data.orderId, opts.delay
    evt,        \* the event the listener handled last: id, expiresAt, and the time
    \* ---- the connection of a service to the bus ----
    conn,       \* "open", "closing" after close(), "lost" after a drop, "closed"
    work,       \* what the process accepted: the kind of work, and conn then
    http,       \* the write request in flight: accepted, saved, published or lost
    \* ---- startup of a service ----
    boot,       \* start(): pc, the attempt of each connect loop, the attempts
                \* made on the store, the last wait and the one before, what
                \* assertEnv found, the client id of the last connect to the
                \* bus, and the states of the store connection in which a
                \* listener handled a message
    \* ---- the process of the expiration service ----
    sched,      \* the scheduler's process: up or not, and its restarts so far
    \* ---- concurrent requests to reserve the ticket (orders service) ----
    rsv,        \* request -> pc: idle, saving, 201 or AlreadyReserved
    \* ---- the payment gateway (Stripe) ----
    gateway     \* order id -> the idempotency keys under which the gateway
                \* created a charge for the order

busVars == <<pool, acked, dups>>
replicaVars == <<replica, applied, withheld>>
flowVars == <<order, porder, payments, charges, req, jobs>>
outboxVars == <<tx, outbox, dlq, relay, sent, hist, crashes>>
\* the state outside the order workflow
writerVars == <<wr, accepts>>
\* the state outside the order workflow
procVars == <<proc>>
groupVars == <<sub>>
queueVars == <<queue, evt>>
\* the parts of the services that are modelled on their own
connVars == <<conn, work, http>>
bootVars == <<boot>>
schedVars == <<sched>>
reserveVars == <<rsv>>
gatewayVars == <<gateway>>
partVars == <<queueVars, connVars, bootVars, schedVars, reserveVars, gatewayVars>>
sideVars == <<outboxVars, writerVars, procVars, groupVars, partVars>>
\* the state outside the order workflow and the gateway
restVars == <<outboxVars, writerVars, procVars, groupVars, queueVars, connVars,
                bootVars, schedVars, reserveVars>>
\* the state the outbox's write path and relay leave alone
outsideOutbox == <<pool, acked, dups, ticket, replica, porder, payments,
                   charges, req, jobs, applied, withheld, last, writerVars,
                   procVars, groupVars, partVars>>
vars == <<pool, acked, dups, ticket, replica, order, porder, payments,
          charges, req, jobs, applied, withheld, last, sideVars>>

(* ------------------------------ the bus -------------------------------- *)

\* One message of a subject as one consumer group receives it.
Msg(type, group, id, version, data) ==
    [type |-> type, group |-> group, id |-> id, version |-> version, data |-> data]

\* publish: every group subscribed to the subject receives the message
Publish(msgs) == pool' = pool \cup msgs

\* msg.ack(): the message leaves the redelivery pool
Ack(m) ==
    /\ pool' = pool \ {m}
    /\ acked' = acked \cup {m}

\* A handler that throws: no ack, the message stays in the pool and is
\* redelivered after ackWait.
Throw(m) ==
    /\ pool' = pool
    /\ acked' = acked

\* At-least-once delivery: a message whose ack came after ackWait, or that was
\* published twice, is delivered again although it was already handled.
Redeliver(m) ==
    /\ m \in acked
    /\ dups < MaxDup
    /\ dups' = dups + 1
    /\ pool' = pool \cup {m}
    /\ acked' = acked \ {m}
    /\ UNCHANGED <<ticket, replicaVars, flowVars, last>>
    /\ UNCHANGED sideVars

(* --------------------------- tickets service --------------------------- *)

\* PUT /api/tickets/:id: the owner changes the price; the save increments the
\* version and TicketUpdated carries the version after the save.
UpdateTicket(p) ==
    /\ ticket.version < MaxVersion
    /\ ticket' = [ticket EXCEPT !.version = @ + 1, !.price = p]
    /\ Publish({Msg("TicketUpdated", "orders", "t1", ticket.version + 1, p)})
    /\ UNCHANGED <<acked, dups, replicaVars, flowVars, last>>
    /\ UNCHANGED sideVars

(* ---------------------------- orders service --------------------------- *)

\* Faulty variants of the version match, used to show that the properties
\* below depend on it: one lets an event skip its predecessors, one applies
\* stale events again, one is off by one.
FindByEventSkipping(local, m) == local.version <= m.version - 1

FindByEventStale(local, m) == local.version >= m.version - 1

FindByEventOffByOne(local, m) == local.version = m.version

\* Ticket.findOne({ _id: data.id, version: data.version - 1 })
FindByEvent(local, m) == local.version = m.version - 1

\* ticket-updated-listener: async onMessage(data, msg)
TicketUpdatedOnMessage(m) ==
    /\ m \in pool
    /\ m.type = "TicketUpdated" /\ m.group = "orders"
    /\ IF FindByEvent(replica, m)
          THEN /\ replica' = [version |-> replica.version + 1, price |-> m.data]
               /\ applied' = Append(applied, m.version)
               /\ Ack(m)
               /\ last' = [msg |-> m, outcome |-> "applied", local |-> replica.version, pre |-> "ticket"]
               /\ UNCHANGED withheld
          ELSE \* throw new Error("Ticket not found")
               /\ Throw(m)
               /\ withheld' = withheld \cup {m.version}
               /\ UNCHANGED <<replica, applied>>
               /\ last' = [msg |-> m, outcome |-> "thrown", local |-> replica.version, pre |-> "ticket"]
    /\ UNCHANGED <<dups, ticket, flowVars>>

\* the listener as the bus sees it: the message is acknowledged or not
TicketUpdatedListener(m) ==
    /\ TicketUpdatedOnMessage(m)
    /\ UNCHANGED sideVars

\* Handled(m, outcome, local, pre): what the listener observed and did
Handled(m, outcome, local, pre) ==
    last' = [msg |-> m, outcome |-> outcome, local |-> local, pre |-> pre]

\* ticket.isReserved(): an order that is not cancelled holds the ticket
IsReserved == \E o \in Orders : order[o].status \in {"Created", "Complete"}

\* order ids are handed out in turn
NextOrderId(o) == \A p \in Orders : order[p].status = "none" => \/ p = o
                                                                \/ o = "o1"

\* POST /api/orders: check the availability of the ticket on the local copy,
\* save the order (status Created, version 0), publish OrderCreated.
NewOrder(o) ==
    /\ order[o].status = "none"
    /\ NextOrderId(o)
    /\ ~IsReserved
    /\ order' = [order EXCEPT ![o] = [status |-> "Created", version |-> 0]]
    /\ Publish({Msg("OrderCreated", g, o, 0, 0) :
                   g \in {"tickets", "payments", "expiration"}})
    /\ UNCHANGED <<acked, dups, ticket, replicaVars, porder, payments, charges,
                   req, jobs, last>>
    /\ UNCHANGED sideVars

\* two requests to reserve the ticket that the service handles at once
Reservers == {"a", "b"}

\* the state a reserve request leaves alone, besides the orders and the bus
outsideReserve == <<outboxVars, writerVars, procVars, groupVars, queueVars,
                    connVars, bootVars, schedVars, gatewayVars>>

\* POST /api/orders, up to the save: Ticket.findById, ticket.isReserved(),
\* BadRequestError('Ticket is already reserved'); every await of the handler
\* is a point where another request runs
ReserveCheck(r) ==
    /\ rsv[r] = "idle"
    /\ \E o \in Orders : order[o].status = "none"
    /\ rsv' = [rsv EXCEPT ![r] = IF IsReserved THEN "AlreadyReserved" ELSE "saving"]
    /\ UNCHANGED <<busVars, ticket, replicaVars, flowVars, last, outsideReserve>>

\* POST /api/orders, from the save: Order.build, order.save(), publish
\* OrderCreated, res.status(201)
ReserveSave(r, o) ==
    /\ rsv[r] = "saving"
    /\ order[o].status = "none"
    /\ NextOrderId(o)
    /\ order' = [order EXCEPT ![o] = [status |-> "Created", version |-> 0]]
    /\ Publish({Msg("OrderCreated", g, o, 0, 0) :
                   g \in {"tickets", "payments", "expiration"}})
    /\ rsv' = [rsv EXCEPT ![r] = "201"]
    /\ UNCHANGED <<acked, dups, ticket, replicaVars, porder, payments, charges,
                   req, jobs, last, outsideReserve>>

\* the response is sent; the client may send its next request
ReserveDone(r) ==
    /\ rsv[r] \in {"201", "AlreadyReserved"}
    /\ rsv' = [rsv EXCEPT ![r] = "idle"]
    /\ UNCHANGED <<busVars, ticket, replicaVars, flowVars, last, outsideReserve>>

\* Faulty variant: the expiration check that does not look at the status.
AlreadyPaidNever(o) == FALSE

\* order.status === OrderStatus.Complete
AlreadyPaid(o) == order[o].status = "Complete"

\* expiration-complete-listener onMessage
ExpirationCompleteListener(m) ==
    /\ m \in pool
    /\ m.type = "ExpirationComplete" /\ m.group = "orders"
    /\ IF order[m.id].status = "none"
          THEN \* throw new Error("Order not found")
               /\ Throw(m)
               /\ Handled(m, "thrown", order[m.id].version, order[m.id].status)
               /\ UNCHANGED order
          ELSE IF AlreadyPaid(m.id)
          THEN \* return msg.ack()
               /\ Ack(m)
               /\ Handled(m, "noop", order[m.id].version, order[m.id].status)
               /\ UNCHANGED order
          ELSE \* set Cancelled, save, publish OrderCancelled, ack
               /\ order' = [order EXCEPT ![m.id] =
                               [status |-> "Cancelled", version |-> @.version + 1]]
               /\ pool' = (pool \ {m}) \cup
                              {Msg("OrderCancelled", g, m.id, order[m.id].version + 1, 0) :
                                  g \in {"tickets", "payments"}}
               /\ acked' = acked \cup {m}
               /\ Handled(m, "applied", order[m.id].version, order[m.id].status)
    /\ UNCHANGED <<dups, ticket, replicaVars, porder, payments, charges, req, jobs>>
    /\ UNCHANGED sideVars

\* Faulty variant: a payment event completes the order whatever its status.
PaymentAcceptedAlways(o) == TRUE

\* Order: Created --(PaymentValidated)--> Complete
PaymentAccepted(o) == order[o].status = "Created"

\* payment-created-listener onMessage
PaymentCreatedListener(m) ==
    /\ m \in pool
    /\ m.type = "PaymentCreated" /\ m.group = "orders"
    /\ IF order[m.id].status = "none"
          THEN /\ Throw(m)
               /\ Handled(m, "thrown", order[m.id].version, order[m.id].status)
               /\ UNCHANGED order
          ELSE IF PaymentAccepted(m.id)
          THEN /\ order' = [order EXCEPT ![m.id] =
                               [status |-> "Complete", version |-> @.version + 1]]
               /\ Ack(m)
               /\ Handled(m, "applied", order[m.id].version, order[m.id].status)
          ELSE \* the order is in a terminal state: no-op
               /\ Ack(m)
               /\ Handled(m, "noop", order[m.id].version, order[m.id].status)
               /\ UNCHANGED order
    /\ UNCHANGED <<dups, ticket, replicaVars, porder, payments, charges, req, jobs>>
    /\ UNCHANGED sideVars

(* ------------------- tickets service: reservations -------------------- *)

\* TicketUpdated after a save of the ticket by a listener
TicketUpdatedMsg(t) == Msg("TicketUpdated", "orders", "t1", t.version, t.price)

\* order-created-listener onMessage: available --(OrderCreated)--> reserved
TicketsOrderCreatedListener(m) ==
    /\ m \in pool
    /\ m.type = "OrderCreated" /\ m.group = "tickets"
    /\ IF ticket.orderId = NoOrder
          THEN /\ ticket' = [ticket EXCEPT !.orderId = m.id, !.version = @ + 1]
               /\ pool' = (pool \ {m}) \cup {TicketUpdatedMsg(ticket')}
               /\ acked' = acked \cup {m}
               /\ Handled(m, "applied", ticket.version, ticket.orderId)
          ELSE \* the ticket is not available: failed precondition
               /\ Throw(m)
               /\ Handled(m, "thrown", ticket.version, ticket.orderId)
               /\ UNCHANGED ticket
    /\ UNCHANGED <<dups, replicaVars, flowVars>>
    /\ UNCHANGED sideVars

\* Faulty variant: a cancellation also "releases" a ticket nobody holds.
CancellationMatchesOrAvailable(t, m) == t.orderId \in {m.id, NoOrder}

\* Faulty variant: a cancellation releases the ticket whoever holds it.
CancellationMatchesAny(t, m) == t.orderId # NoOrder

\* reserved(orderId) --(OrderCancelled with matching orderId)--> available
CancellationMatches(t, m) == t.orderId = m.id

\* order-cancelled-listener onMessage: clear ticket.orderId
TicketsOrderCancelledListener(m) ==
    /\ m \in pool
    /\ m.type = "OrderCancelled" /\ m.group = "tickets"
    /\ IF CancellationMatches(ticket, m)
          THEN /\ ticket' = [ticket EXCEPT !.orderId = NoOrder, !.version = @ + 1]
               /\ pool' = (pool \ {m}) \cup {TicketUpdatedMsg(ticket')}
               /\ acked' = acked \cup {m}
               /\ Handled(m, "applied", ticket.version, ticket.orderId)
          ELSE \* a cancellation of another order: rejected
               /\ Ack(m)
               /\ Handled(m, "noop", ticket.version, ticket.orderId)
               /\ UNCHANGED ticket
    /\ UNCHANGED <<dups, replicaVars, flowVars>>
    /\ UNCHANGED sideVars

(* -------------------------- expiration service ------------------------- *)

\* order-created-listener onMessage: expirationQueue.add({orderId}, {delay})
ExpirationOrderCreatedListener(m) ==
    /\ m \in pool
    /\ m.type = "OrderCreated" /\ m.group = "expiration"
    /\ jobs' = [jobs EXCEPT ![m.id] = @ + 1]
    /\ Ack(m)
    /\ Handled(m, "applied", jobs[m.id], "job")
    /\ UNCHANGED <<dups, ticket, replicaVars, order, porder, payments, charges, req>>
    /\ UNCHANGED sideVars

\* the delayed job fires: publish ExpirationComplete
ExpirationFire(o) ==
    /\ jobs[o] > 0
    /\ jobs' = [jobs EXCEPT ![o] = @ - 1]
    /\ Publish({Msg("ExpirationComplete", "orders", o, 0, 0)})
    /\ UNCHANGED <<acked, dups, ticket, replicaVars, order, porder, payments,
                   charges, req, last>>
    /\ UNCHANGED sideVars

\* jobs the delayed queue takes
MaxJobs == 2
\* the times of the model, in milliseconds: now, a minute, 15 and 20 minutes
Times == {0, 60 * 1000, 15 * 60 * 1000, 20 * 60 * 1000}

NoEvent == [id |-> NoOrder, expiresAt |-> 0, now |-> 0]

\* Faulty variant: the delay is what is left until expiresAt.
DelayUntilExpiresAt(expiresAt, now) == expiresAt - now

\* expiration/src/events/listeners/order-created-listener.ts:11
\* delay: 15 * 60 * 1000
Delay(expiresAt, now) == 15 * 60 * 1000

\* order-created-listener onMessage(data, msg), called with an event whose
\* expiresAt is any time, before or after now:
\* expirationQueue.add({ orderId: data.id }, { delay })
ExpirationOnMessage(o, expiresAt, now) ==
    /\ Len(queue) < MaxJobs
    /\ queue' = Append(queue, [orderId |-> o, delay |-> Delay(expiresAt, now)])
    /\ evt' = [id |-> o, expiresAt |-> expiresAt, now |-> now]
    /\ UNCHANGED <<busVars, ticket, replicaVars, flowVars, last, outboxVars,
                   writerVars, procVars, groupVars, connVars, bootVars, schedVars,
                   reserveVars, gatewayVars>>

\* the queue hands the job at its head to the worker when its delay is over
QueueProcess ==
    /\ queue # <<>>
    /\ queue' = Tail(queue)
    /\ UNCHANGED evt
    /\ UNCHANGED <<busVars, ticket, replicaVars, flowVars, last, outboxVars,
                   writerVars, procVars, groupVars, connVars, bootVars, schedVars,
                   reserveVars, gatewayVars>>

\* the state a restart of the scheduler leaves alone: the jobs are kept by
\* the queue's store (Redis), the messages by the bus
outsideSched == <<busVars, ticket, replicaVars, flowVars, last, outboxVars,
                  writerVars, procVars, groupVars, queueVars, connVars, bootVars,
                  reserveVars, gatewayVars>>

\* the listener of the expiration service runs while its process is up
SchedulerListen(m) ==
    /\ sched.up
    /\ ExpirationOrderCreatedListener(m)

\* the worker of the queue runs while the process is up
SchedulerFire(o) ==
    /\ sched.up
    /\ ExpirationFire(o)

\* the process of the expiration service stops between the scheduling of a
\* job and its firing
SchedulerStop ==
    /\ sched.up
    /\ sched.restarts < MaxCrash
    /\ \E o \in Orders : jobs[o] > 0
    /\ sched' = [sched EXCEPT !.up = FALSE]
    /\ UNCHANGED outsideSched

\* start() of the expiration service: connect, listen
SchedulerStart ==
    /\ ~sched.up
    /\ sched' = [up |-> TRUE, restarts |-> sched.restarts + 1]
    /\ UNCHANGED outsideSched

(* --------------------------- payments service -------------------------- *)

\* order-created-listener onMessage: the payments service's copy of the order
PaymentsOrderCreatedListener(m) ==
    /\ m \in pool
    /\ m.type = "OrderCreated" /\ m.group = "payments"
    /\ IF porder[m.id].status = "none"
          THEN /\ porder' = [porder EXCEPT ![m.id] =
                                [status |-> "Created", version |-> m.version]]
               /\ Handled(m, "applied", porder[m.id].version, porder[m.id].status)
          ELSE \* the copy exists: stale, no-op
               /\ Handled(m, "noop", porder[m.id].version, porder[m.id].status)
               /\ UNCHANGED porder
    /\ Ack(m)
    /\ UNCHANGED <<dups, ticket, replicaVars, order, payments, charges, req, jobs>>
    /\ UNCHANGED sideVars

\* order-cancelled-listener onMessage: version mismatch -> throw -> redelivery
PaymentsOrderCancelledListener(m) ==
    /\ m \in pool
    /\ m.type = "OrderCancelled" /\ m.group = "payments"
    /\ IF porder[m.id].status # "none" /\ FindByEvent(porder[m.id], m)
          THEN /\ porder' = [porder EXCEPT ![m.id] =
                                [status |-> "Cancelled", version |-> @.version + 1]]
               /\ Ack(m)
               /\ Handled(m, "applied", porder[m.id].version, porder[m.id].status)
          ELSE /\ Throw(m)
               /\ Handled(m, "thrown", porder[m.id].version, porder[m.id].status)
               /\ UNCHANGED porder
    /\ UNCHANGED <<dups, ticket, replicaVars, order, payments, charges, req, jobs>>
    /\ UNCHANGED sideVars

\* requests are numbered in the order they arrive
NextRequest(r) == req[r].pc = "idle" /\ \A q \in Reqs : q < r => req[q].pc # "idle"

\* Faulty variant: the handler that does not look at the status of the order.
PayableAnyStatus(o) == porder[o].status # "none"

\* the order exists and is neither Cancelled nor Complete
Payable(o) == porder[o].status \notin {"none", "Cancelled", "Complete"}

\* POST /api/payments, up to the charge: Order.findById, the checks on the
\* order, Payment.findOne({ orderId })
PayCheck(r, o, u) ==
    /\ NextRequest(r)
    /\ req' = [req EXCEPT ![r] =
          [order |-> o,
           pc |-> IF porder[o].status = "none" THEN "NotFound"
                  ELSE IF u # Owner THEN "NotAuthorized"
                  ELSE IF ~Payable(o) THEN "BadRequest"
                  ELSE IF payments[o] > 0 THEN "BadRequest"
                  ELSE "charging"]]
    /\ UNCHANGED <<busVars, ticket, replicaVars, order, porder, payments, charges,
                   jobs, last>>
    /\ UNCHANGED sideVars

\* Faulty variant: a key of its own for every request.
IdempotencyKeyPerRequest(r) == ToString(r)

\* { idempotencyKey: order.id }
IdempotencyKey(r) == req[r].order

\* the gateway creates a charge for a key it has not seen, and answers a
\* call with a key it has seen with the charge it created then
GatewayCharge(o, key) == [gateway EXCEPT ![o] = @ \cup {key}]

\* stripe.charges.create(..., { idempotencyKey: order.id })
PayCharge(r, ok) ==
    /\ req[r].pc = "charging"
    /\ IF ok
          THEN /\ charges' = [charges EXCEPT ![req[r].order] = @ + 1]
               /\ gateway' = GatewayCharge(req[r].order, IdempotencyKey(r))
               /\ req' = [req EXCEPT ![r].pc = "charged"]
          ELSE /\ req' = [req EXCEPT ![r].pc = "GatewayError"]
               /\ UNCHANGED <<charges, gateway>>
    /\ UNCHANGED <<busVars, ticket, replicaVars, order, porder, payments, jobs, last>>
    /\ UNCHANGED restVars

\* payment.save(), publish PaymentCreated, res.status(201)
PaySave(r) ==
    /\ req[r].pc = "charged"
    /\ payments' = [payments EXCEPT ![req[r].order] = @ + 1]
    /\ Publish({Msg("PaymentCreated", "orders", req[r].order, 0,
                    payments[req[r].order] + 1)})
    /\ req' = [req EXCEPT ![r].pc = "201"]
    /\ UNCHANGED <<acked, dups, ticket, replicaVars, order, porder, charges, jobs, last>>
    /\ UNCHANGED sideVars

\* The same handler from the charge on, one step per await, with the
\* failures of the store and of the bus and a stop of the process.

\* Faulty variant: a handler that catches the gateway's error and goes on.
ChargeAttempted(r) == req[r].pc \in {"charged", "GatewayError"}

\* the await of stripe.charges.create has returned a charge
ChargeSucceeded(r) == req[r].pc = "charged"

\* Payment.build({ orderId, stripeId: charge.id }); await payment.save()
PaymentSave(r, ok) ==
    /\ ChargeSucceeded(r)
    /\ IF ok
          THEN /\ payments' = [payments EXCEPT ![req[r].order] = @ + 1]
               /\ req' = [req EXCEPT ![r].pc = "saved"]
          ELSE \* save() throws: the request ends with an error
               /\ req' = [req EXCEPT ![r].pc = "SaveError"]
               /\ UNCHANGED payments
    /\ UNCHANGED <<busVars, ticket, replicaVars, order, porder, charges, jobs, last>>
    /\ UNCHANGED sideVars

\* new PaymentCreatedPublisher(...).publish({...}) is called and not awaited,
\* then res.status(201).send(...): the answer leaves with the publish pending
PaymentRespond(r) ==
    /\ req[r].pc = "saved"
    /\ req' = [req EXCEPT ![r].pc = "201"]
    /\ UNCHANGED <<busVars, ticket, replicaVars, order, porder, payments, charges,
                   jobs, last>>
    /\ UNCHANGED sideVars

\* the pending publish ends: the bus has the event, or the promise rejects
\* and nothing publishes the event again
PaymentPublished(r, ok) ==
    /\ req[r].pc = "201"
    /\ IF ok
          THEN /\ Publish({Msg("PaymentCreated", "orders", req[r].order, 0, r)})
               /\ req' = [req EXCEPT ![r].pc = "published"]
          ELSE /\ req' = [req EXCEPT ![r].pc = "unpublished"]
               /\ UNCHANGED pool
    /\ UNCHANGED <<acked, dups, ticket, replicaVars, order, porder, payments, charges,
                   jobs, last>>
    /\ UNCHANGED sideVars

\* the process stops after the Payment is saved and before the publish has
\* completed: the request's remaining steps never run
PaymentStop(r) ==
    /\ req[r].pc \in {"saved", "201"}
    /\ req' = [req EXCEPT ![r].pc = "stopped"]
    /\ UNCHANGED <<busVars, ticket, replicaVars, order, porder, payments, charges,
                   jobs, last>>
    /\ UNCHANGED sideVars

(* ------------------- transactional outbox (ADR-002) -------------------- *)

RecIds == 1..MaxRec
\* two relay workers: the poller of two replicas of the orders service
Workers == {"w1", "w2"}

NoRec == [state |-> "none", order |-> NoOrder, type |-> "none", version |-> 0,
          published |-> FALSE, attempts |-> 0]
IdleTx == [pc |-> "idle", order |-> NoOrder, status |-> "none", version |-> 0,
           payload |-> 0]
IdleRelay == [pc |-> "idle", batch |-> {}]

\* records get their ids in the order they are created (createdAt)
NextRec == Cardinality({r \in RecIds : outbox[r].state # "none"}) + 1

\* the write path: a route of the orders service opens a session to create
\* an order (status Created, version 0) or, on the same path, to cancel one
TxBegin(o) ==
    /\ tx.pc = "idle"
    /\ NextRec <= MaxRec
    /\ \/ order[o].status = "none" /\ NextOrderId(o) /\ ~IsReserved
       \/ order[o].status = "Created"
    /\ tx' = [pc |-> "started", order |-> o,
              status |-> IF order[o].status = "none" THEN "Created" ELSE "Cancelled",
              version |-> IF order[o].status = "none" THEN 0 ELSE order[o].version + 1,
              payload |-> 0]
    /\ UNCHANGED <<order, outbox, dlq, relay, sent, hist, crashes, outsideOutbox>>

\* Faulty variant: a save that does not pass the session is durable at once.
SaveOutsideSession == FALSE

\* order.save({ session }): the write belongs to the transaction
SaveInSession == TRUE

\* await order.save({ session }); on failure abortTransaction and rethrow
TxSave(ok) ==
    /\ tx.pc = "started"
    /\ IF ok
          THEN /\ tx' = [tx EXCEPT !.pc = "saved"]
               /\ order' = IF SaveInSession
                               THEN order
                               ELSE [order EXCEPT ![tx.order] =
                                        [status |-> tx.status, version |-> tx.version]]
          ELSE /\ tx' = IdleTx
               /\ UNCHANGED order
    /\ UNCHANGED <<outbox, dlq, relay, sent, hist, crashes, outsideOutbox>>

\* Faulty variant: the payload takes the version the entity had before the
\* mutation.
PayloadVersionBeforeSave(o) == order[o].version

\* payload: { version: order.version }, read from the document just saved
PayloadVersion(o) == tx.version

\* await Outbox.create([...], { session }); on failure abortTransaction
TxOutbox(ok) ==
    /\ tx.pc = "saved"
    /\ tx' = IF ok THEN [tx EXCEPT !.pc = "staged", !.payload = PayloadVersion(tx.order)]
                   ELSE IdleTx
    /\ UNCHANGED <<order, outbox, dlq, relay, sent, hist, crashes, outsideOutbox>>

\* await session.commitTransaction(): the order and its record become
\* durable together; on failure abortTransaction
TxCommit(ok) ==
    /\ tx.pc = "staged"
    /\ tx' = IdleTx
    /\ IF ok
          THEN /\ order' = [order EXCEPT ![tx.order] =
                               [status |-> tx.status, version |-> tx.version]]
               /\ outbox' = [outbox EXCEPT ![NextRec] =
                                [state |-> "active", order |-> tx.order,
                                 type |-> IF tx.status = "Created" THEN "OrderCreated"
                                                                   ELSE "OrderCancelled",
                                 version |-> tx.payload,
                                 published |-> FALSE, attempts |-> 0]]
               /\ hist' = [hist EXCEPT ![NextRec] = order'[tx.order].version]
          ELSE UNCHANGED <<order, outbox, hist>>
    /\ UNCHANGED <<dlq, relay, sent, crashes, outsideOutbox>>

\* Outbox.find({ published: false, attempts: { $lt: MAX_RETRIES } })
Eligible ==
    {r \in RecIds : /\ outbox[r].state = "active"
                    /\ ~outbox[r].published
                    /\ outbox[r].attempts < MAX_RETRIES}

\* Faulty variant: the newest records first.
Newest(S, n) == {r \in S : Cardinality({q \in S : q > r}) < n}

\* .sort({ createdAt: 1 }).limit(n)
Oldest(S, n) == {r \in S : Cardinality({q \in S : q < r}) < n}

\* for (const event of events): the next event of the batch
Min(S) == CHOOSE r \in S : \A q \in S : r <= q

\* publishBatch, the query; if (events.length === 0) return
RelayFind(w) ==
    /\ relay[w].pc = "idle"
    /\ Eligible # {}
    /\ relay' = [relay EXCEPT ![w] =
                    [pc |-> "publish", batch |-> Oldest(Eligible, BATCH_SIZE)]]
    /\ UNCHANGED <<tx, order, outbox, dlq, sent, hist, crashes, outsideOutbox>>

\* Faulty variant: the relay reads the version of the entity when it publishes.
EventVersionReadLater(e) == order[outbox[e].order].version

\* event.payload, as stored in the record
EventVersion(e) == outbox[e].version

\* await natsWrapper.client.publish(event.eventType, event.payload)
RelayPublish(w, ok) ==
    /\ relay[w].pc = "publish"
    /\ IF ok
          THEN /\ sent' = [sent EXCEPT ![Min(relay[w].batch)] =
                              Append(@, EventVersion(Min(relay[w].batch)))]
               /\ relay' = [relay EXCEPT ![w].pc = "mark"]
          ELSE /\ relay' = [relay EXCEPT ![w].pc = "fail"]
               /\ UNCHANGED sent
    /\ UNCHANGED <<tx, order, outbox, dlq, hist, crashes, outsideOutbox>>

\* the loop goes on to the next event of the batch
Advance(w) ==
    [pc |-> IF relay[w].batch \ {Min(relay[w].batch)} = {} THEN "idle" ELSE "publish",
     batch |-> relay[w].batch \ {Min(relay[w].batch)}]

\* Outbox.updateOne({ _id: event._id, published: false }, { $set: { published: true } })
RelayMark(w) ==
    /\ relay[w].pc = "mark"
    /\ outbox' = IF /\ outbox[Min(relay[w].batch)].state = "active"
                    /\ ~outbox[Min(relay[w].batch)].published
                    THEN [outbox EXCEPT ![Min(relay[w].batch)].published = TRUE]
                    ELSE outbox
    /\ relay' = [relay EXCEPT ![w] = Advance(w)]
    /\ UNCHANGED <<tx, order, dlq, sent, hist, crashes, outsideOutbox>>

\* catch: Outbox.updateOne({ _id: event._id }, { $inc: { attempts: 1 } })
RelayFail(w) ==
    /\ relay[w].pc = "fail"
    /\ outbox' = IF outbox[Min(relay[w].batch)].state = "active"
                    THEN [outbox EXCEPT ![Min(relay[w].batch)].attempts = @ + 1]
                    ELSE outbox
    /\ relay' = [relay EXCEPT ![w] = Advance(w)]
    /\ UNCHANGED <<tx, order, dlq, sent, hist, crashes, outsideOutbox>>

\* Faulty variants: the ceiling is never reached; the ceiling is one attempt.
CeilingNever(e) == FALSE

CeilingEarly(e) == outbox[e].attempts >= 1

\* if (event.attempts >= MAX_RETRIES)
CeilingReached(e) == outbox[e].attempts >= MAX_RETRIES

\* dead letter handling: await DeadLetterQueue.create({ originalEventId: event._id, ... })
DeadLetterCreate(w, e) ==
    /\ relay[w].pc = "idle"
    /\ outbox[e].state = "active"
    /\ CeilingReached(e)
    /\ dlq' = [dlq EXCEPT ![e] = @ + 1]
    /\ relay' = [relay EXCEPT ![w] = [pc |-> "dlq", batch |-> {e}]]
    /\ UNCHANGED <<tx, order, outbox, sent, hist, crashes, outsideOutbox>>

\* dead letter handling: await Outbox.deleteOne({ _id: event._id })
DeadLetterDelete(w) ==
    /\ relay[w].pc = "dlq"
    /\ outbox' = [outbox EXCEPT ![Min(relay[w].batch)].state = "deleted"]
    /\ relay' = [relay EXCEPT ![w] = IdleRelay]
    /\ UNCHANGED <<tx, order, dlq, sent, hist, crashes, outsideOutbox>>

\* the process of a worker stops at any point (SIGKILL, OOM) and restarts:
\* what was in memory is lost, an open transaction is rolled back; the
\* routes of the model run in the process of worker w1
Crash(w) ==
    /\ crashes.n < MaxCrash
    /\ relay[w].pc # "idle" \/ (w = "w1" /\ tx.pc # "idle")
    /\ crashes' = [n |-> crashes.n + 1,
                   tx |-> IF w = "w1" /\ tx.pc = "staged" THEN "staged" ELSE crashes.tx]
    /\ relay' = [relay EXCEPT ![w] = IdleRelay]
    /\ tx' = IF w = "w1" THEN IdleTx ELSE tx
    /\ UNCHANGED <<order, outbox, dlq, sent, hist, outsideOutbox>>

(* ------------------- concurrent writers of one entity ------------------ *)

\* the request path (PUT /api/tickets/:id) and the listener path
\* (order-created-listener) of the tickets service
Writers == {"request", "listener"}

\* Ticket.findById: the writer reads the ticket and prepares its change
WriterRead(w, p) ==
    /\ wr[w].pc = "idle"
    /\ ticket.version < MaxVersion
    /\ wr' = [wr EXCEPT ![w] = [pc |-> "read", seen |-> ticket.version, price |-> p]]
    /\ UNCHANGED <<busVars, ticket, replicaVars, flowVars, last, outboxVars, accepts,
                   procVars, groupVars, partVars>>

\* Faulty variant: a save that does not look at the version.
VersionMatchesAlways(t, expected) == TRUE

\* update where id = X and version = expected
VersionMatches(t, expected) == t.version = expected

\* ticket.save(): the conditional write; zero rows matched is a version
\* conflict and the ticket is left as it is
WriterSave(w) ==
    /\ wr[w].pc = "read"
    /\ IF VersionMatches(ticket, wr[w].seen)
          THEN /\ ticket' = [ticket EXCEPT !.version = wr[w].seen + 1,
                                            !.price = wr[w].price]
               /\ wr' = [wr EXCEPT ![w].pc = "saved"]
               /\ accepts' = accepts \cup {<<w, wr[w].seen>>}
          ELSE /\ wr' = [wr EXCEPT ![w].pc = "StaleVersionError"]
               /\ UNCHANGED <<ticket, accepts>>
    /\ UNCHANGED <<busVars, replicaVars, flowVars, last, outboxVars, procVars, groupVars, partVars>>

\* the writer is done; after a conflict the caller reads again and retries
WriterDone(w) ==
    /\ wr[w].pc \in {"saved", "StaleVersionError"}
    /\ wr' = [wr EXCEPT ![w].pc = "idle"]
    /\ UNCHANGED <<busVars, ticket, replicaVars, flowVars, last, outboxVars, accepts,
                   procVars, groupVars, partVars>>

(* ------------------- the process of the orders service ---------------- *)

\* process.on('unhandledRejection', (err) => { console.error(...); process.exit(1); })
UnhandledRejection == "exited"

\* onMessage is async: its throw is a rejected promise, and no handler of
\* the service catches it
Rejects(m) == ~FindByEvent(replica, m)

\* a TicketUpdated message is delivered to the listener of the running
\* process
OrdersOnMessage(m) ==
    /\ proc = "running"
    /\ TicketUpdatedOnMessage(m)
    /\ proc' = IF Rejects(m) THEN UnhandledRejection ELSE proc
    /\ UNCHANGED <<outboxVars, writerVars, groupVars, partVars>>

\* the container is started again: start() connects and subscribes
Restart ==
    /\ proc = "exited"
    /\ proc' = "running"
    /\ UNCHANGED <<busVars, ticket, replicaVars, flowVars, last, outboxVars,
                   writerVars, groupVars, partVars>>

(* -------------------- the connection to the bus ----------------------- *)

\* the state a shutdown leaves alone
outsideConn == <<busVars, ticket, replicaVars, flowVars, last, outboxVars,
                 writerVars, groupVars, queueVars, bootVars, schedVars, reserveVars,
                 gatewayVars>>

\* app.listen(3000): a write request (POST /api/orders) is accepted by the
\* running process, whatever the state of the connection
HttpWrite ==
    /\ proc = "running"
    /\ http = "idle"
    /\ http' = "accepted"
    /\ work' = work \cup {<<"http", conn>>}
    /\ UNCHANGED <<proc, conn, outsideConn>>

\* the request saves its order
HttpSave ==
    /\ proc = "running"
    /\ http = "accepted"
    /\ http' = "saved"
    /\ UNCHANGED <<proc, conn, work, outsideConn>>

\* the request publishes its event: it is lost when close() was called
HttpPublish ==
    /\ proc = "running"
    /\ http = "saved"
    /\ http' = IF conn = "open" THEN "published" ELSE "lost"
    /\ UNCHANGED <<proc, conn, work, outsideConn>>

\* HTTP response sent: 201 Created
HttpRespond ==
    /\ proc = "running"
    /\ http \in {"published", "lost"}
    /\ http' = "idle"
    /\ UNCHANGED <<proc, conn, work, outsideConn>>

\* a listener of the process handles a message of its subscription
BusHandle ==
    /\ proc = "running"
    /\ conn \in {"open", "closing"}
    /\ work' = work \cup {<<"event", conn>>}
    /\ UNCHANGED <<proc, conn, http, outsideConn>>

\* process.on('SIGINT' / 'SIGTERM', () => natsWrapper.client.close())
Signal ==
    /\ proc = "running"
    /\ conn = "open"
    /\ conn' = "closing"
    /\ UNCHANGED <<proc, work, http, outsideConn>>

\* the connection drops unexpectedly
Drop ==
    /\ proc = "running"
    /\ conn = "open"
    /\ conn' = "lost"
    /\ UNCHANGED <<proc, work, http, outsideConn>>

\* Faulty variant: the close handler that only logs.
OnCloseLogOnly == "running"

\* natsWrapper.client.on('close', () => { console.log(...); process.exit(); })
OnClose == "exited"

\* the connection is closed and the client emits 'close'
CloseEvent ==
    /\ proc = "running"
    /\ conn \in {"closing", "lost"}
    /\ conn' = "closed"
    /\ proc' = OnClose
    /\ UNCHANGED <<work, http, outsideConn>>

\* the container is started again: a new process, a new connection
Start ==
    /\ proc = "exited"
    /\ proc' = "running"
    /\ conn' = "open"
    /\ work' = {}
    /\ http' = "idle"
    /\ UNCHANGED outsideConn

(* ------------------------- startup of a service ----------------------- *)

\* the state start() leaves alone
outsideBoot == <<busVars, ticket, replicaVars, flowVars, last, outboxVars,
                 writerVars, procVars, groupVars, queueVars, connVars, schedVars,
                 reserveVars, gatewayVars>>

\* const max = 20
max == 20

\* Math.min(5000, ms)
Capped(ms) == IF ms < 5000 THEN ms ELSE 5000

\* Faulty variant: missing variables are logged and start() goes on.
AssertEnvLogOnly(ok) ==
    /\ boot.pc = "env"
    /\ boot' = [boot EXCEPT !.pc = "nats", !.env = IF ok THEN "ok" ELSE "missing"]
    /\ UNCHANGED outsideBoot

\* assertEnv([...]) and, in the payments service, the check of STRIPE_KEY:
\* if (missing.length) throw new Error(`Missing env vars: ...`)
AssertEnv(ok) ==
    /\ boot.pc = "env"
    /\ boot' = IF ok THEN [boot EXCEPT !.pc = "nats", !.env = "ok"]
                     ELSE [boot EXCEPT !.pc = "fatal", !.env = "missing"]
    /\ UNCHANGED outsideBoot

\* Faulty variant: every attempt uses the base client id.
ClientIdBase(attempt) == "base"

\* const suffix = attempt === 1 ? '' : `-${Date.now()...}-${Math.random()...}`;
\* const clientId = `${baseClientId}${suffix}`
ClientId(attempt) == IF attempt = 1 THEN "base" ELSE "suffixed"

\* payments start(): delay(Math.min(5000, attempt * 800))
NatsWait(attempt) == Capped(attempt * 800)

\* payments start(): one turn of for (let attempt = 1; attempt <= 8; attempt++);
\* the connect succeeds, or fails with 'clientID already registered' or with
\* another error
NatsConnect(ok, registered) ==
    /\ boot.pc = "nats"
    /\ boot' = IF ok THEN [boot EXCEPT !.pc = "listen",
                                       !.clientId = ClientId(boot.attempt)]
               ELSE IF ~registered /\ boot.attempt >= 3
                       THEN \* throw err
                            [boot EXCEPT !.pc = "fatal",
                                         !.clientId = ClientId(boot.attempt)]
               ELSE IF boot.attempt >= 8
                       THEN \* throw new Error('Failed to connect to NATS after retries.')
                            [boot EXCEPT !.pc = "fatal", !.wait = NatsWait(boot.attempt),
                                         !.clientId = ClientId(boot.attempt)]
               ELSE [boot EXCEPT !.attempt = @ + 1, !.wait = NatsWait(boot.attempt),
                                 !.clientId = ClientId(boot.attempt)]
    /\ UNCHANGED outsideBoot

\* new OrderCreatedListener(natsWrapper.client).listen(); ...
Listen ==
    /\ boot.pc = "listen"
    /\ boot' = [boot EXCEPT !.pc = "mongo", !.wait = 0, !.prev = 0]
    /\ UNCHANGED outsideBoot

\* a message of a subject the service has subscribed to is delivered and
\* its listener's onMessage runs, with the store connected or not yet
OnMessage ==
    /\ boot.pc \in {"mongo", "http", "serving"}
    /\ boot' = [boot EXCEPT !.onMessage =
                    @ \cup {IF boot.pc = "mongo" THEN "connecting" ELSE "connected"}]
    /\ UNCHANGED outsideBoot

\* Faulty variant: the wait doubles with every failed attempt.
MongoWaitDoubling(i) == Capped(500 * 2 ^ (i - 1))

\* connectMongo: delay(Math.min(5000, i * 500))
MongoWait(i) == Capped(i * 500)

\* Faulty variant: the loop that makes one attempt more.
ExhaustedLate(i) == i >= max + 1

\* connectMongo: for (let i = 1; i <= max; i++) ends after the turn i = max
Exhausted(i) == i >= max

\* connectMongo: one turn of the loop; mongoose.connect succeeds and the
\* function returns, or it fails, the function waits and goes on; after the
\* last turn it throws 'Mongo connection failed after retries'
MongoConnect(ok) ==
    /\ boot.pc = "mongo"
    /\ boot' = IF ok THEN [boot EXCEPT !.pc = "http", !.tries = @ + 1]
               ELSE [boot EXCEPT !.pc = IF Exhausted(boot.i) THEN "fatal" ELSE "mongo",
                                 !.i = IF Exhausted(boot.i) THEN @ ELSE @ + 1,
                                 !.tries = @ + 1,
                                 !.prev = boot.wait,
                                 !.wait = MongoWait(boot.i)]
    /\ UNCHANGED outsideBoot

\* app.listen(PORT)
AppListen ==
    /\ boot.pc = "http"
    /\ boot' = [boot EXCEPT !.pc = "serving"]
    /\ UNCHANGED outsideBoot

\* start().catch((e) => { console.error('Fatal startup error:', e); process.exit(1); })
StartCatch ==
    /\ boot.pc = "fatal"
    /\ boot' = [boot EXCEPT !.pc = "exit1"]
    /\ UNCHANGED outsideBoot

(* ---------------------------- consumer groups -------------------------- *)

\* the services subscribed to OrderCreated, each under its own queue group
Groups == {"tickets", "expiration", "payments"}
\* the instances (pods) of a service
Instances == {1, 2}

\* OrderCreatedPublisher.publish: every group gets the message; the next
\* order is placed when the groups are done with the one before
BusPublish(o) ==
    /\ \A g \in Groups : sub[g][o].state = "none"
    /\ \A g \in Groups, q \in Orders \ {o} :
          \/ sub[g][q].state = "acked" /\ sub[g][q].busy = {}
          \/ sub[g][q].state = "none" /\ o = "o1"
    /\ sub' = [g \in Groups |-> [sub[g] EXCEPT ![o] = [state |-> "pending", busy |-> {}]]]
    /\ UNCHANGED <<busVars, ticket, replicaVars, flowVars, last, outboxVars,
                   writerVars, procVars, partVars>>

\* the bus hands a message that is due to one instance of the group
BusDeliver(g, o, i) ==
    /\ sub[g][o].state = "pending"
    /\ i \notin sub[g][o].busy
    /\ sub' = [sub EXCEPT ![g][o] = [state |-> "inflight", busy |-> @.busy \cup {i}]]
    /\ UNCHANGED <<busVars, ticket, replicaVars, flowVars, last, outboxVars,
                   writerVars, procVars, partVars>>

\* no ack within ackWait (5 seconds): the message is due again, for any
\* instance of the group; the handler that has it may still be running
AckWaitElapsed(g, o) ==
    /\ sub[g][o].state = "inflight"
    /\ sub' = [sub EXCEPT ![g][o].state = "pending"]
    /\ UNCHANGED <<busVars, ticket, replicaVars, flowVars, last, outboxVars,
                   writerVars, procVars, partVars>>

\* the handler of instance i ends: msg.ack() on success, nothing on a throw
InstanceDone(g, o, i, ok) ==
    /\ i \in sub[g][o].busy
    /\ sub' = [sub EXCEPT ![g][o] =
                  [state |-> IF ok THEN "acked" ELSE @.state,
                   busy |-> @.busy \ {i}]]
    /\ UNCHANGED <<busVars, ticket, replicaVars, flowVars, last, outboxVars,
                   writerVars, procVars, partVars>>

(* ------------------------------ Init ----------------------------------- *)

NoMsg == Msg("none", "none", "none", 0, 0)

Init ==
    /\ pool = {}
    /\ acked = {}
    /\ dups = 0
    /\ ticket = [version |-> 0, price |-> 10, orderId |-> NoOrder]
    /\ replica = [version |-> 0, price |-> 10]
    /\ order = [o \in Orders |-> [status |-> "none", version |-> 0]]
    /\ porder = [o \in Orders |-> [status |-> "none", version |-> 0]]
    /\ payments = [o \in Orders |-> 0]
    /\ charges = [o \in Orders |-> 0]
    /\ req = [r \in Reqs |-> [pc |-> "idle", order |-> NoOrder]]
    /\ jobs = [o \in Orders |-> 0]
    /\ applied = <<>>
    /\ withheld = {}
    /\ last = [msg |-> NoMsg, outcome |-> "none", local |-> 0, pre |-> "none"]
    /\ tx = IdleTx
    /\ outbox = [r \in RecIds |-> NoRec]
    /\ dlq = [r \in RecIds |-> 0]
    /\ relay = [w \in Workers |-> IdleRelay]
    /\ sent = [r \in RecIds |-> <<>>]
    /\ hist = [r \in RecIds |-> 0]
    /\ crashes = [n |-> 0, tx |-> "idle"]
    /\ wr = [w \in Writers |-> [pc |-> "idle", seen |-> 0, price |-> 10]]
    /\ accepts = {}
    /\ proc = "running"
    /\ sub = [g \in Groups |-> [o \in Orders |-> [state |-> "none", busy |-> {}]]]
    /\ queue = <<>>
    /\ evt = NoEvent
    /\ conn = "open"
    /\ work = {}
    /\ http = "idle"
    /\ boot = [pc |-> "env", attempt |-> 1, i |-> 1, tries |-> 0, wait |-> 0, prev |-> 0,
               env |-> "unchecked", clientId |-> "none", onMessage |-> {}]
    /\ sched = [up |-> TRUE, restarts |-> 0]
    /\ rsv = [r \in Reservers |-> "idle"]
    /\ gateway = [o \in Orders |-> {}]

(* ------------------------- ticket replication -------------------------- *)

\* every message the workflow publishes
FlowMsgs ==
    {Msg(t, g, o, v, 0) : t \in {"OrderCreated", "OrderCancelled", "ExpirationComplete"},
                          g \in {"tickets", "payments", "expiration", "orders"},
                          o \in Orders, v \in 0..(MaxDup + 2)}

TicketMsgs ==
    {Msg("TicketUpdated", "orders", "t1", v, p) : v \in 1..MaxVersion, p \in Prices}

NextReplica ==
    \/ \E p \in Prices : UpdateTicket(p)
    \/ \E m \in pool : TicketUpdatedListener(m)
    \/ \E m \in acked : Redeliver(m)

SpecReplica == Init /\ [][NextReplica]_vars

\* Redelivery is fair: a message that stays deliverable is handled again.
FairReplica ==
    /\ Init
    /\ [][NextReplica]_vars
    /\ \A m \in TicketMsgs : WF_vars(TicketUpdatedListener(m))

(* --------------------------- order workflow ---------------------------- *)

Next ==
    \/ \E o \in Orders : NewOrder(o)
    \/ \E o \in Orders : ExpirationFire(o)
    \/ \E m \in pool : ExpirationOrderCreatedListener(m)
    \/ \E m \in pool : ExpirationCompleteListener(m)
    \/ \E m \in pool : PaymentCreatedListener(m)
    \/ \E m \in pool : PaymentsOrderCreatedListener(m)
    \/ \E m \in pool : PaymentsOrderCancelledListener(m)
    \/ \E r \in 1..MaxReq, o \in Orders, u \in Users : PayCheck(r, o, u)
    \/ \E r \in 1..MaxReq, ok \in BOOLEAN : PayCharge(r, ok)
    \/ \E r \in 1..MaxReq : PaySave(r)
    \/ \E m \in acked : Redeliver(m)

Spec == Init /\ [][Next]_vars

(* ----------------------------- outbox ---------------------------------- *)

\* the worker that runs in the process of the routes
Local == "w1"

\* One instance of the orders service: its routes and its relay worker.
NextOutbox ==
    \/ \E o \in Orders : TxBegin(o)
    \/ \E ok \in BOOLEAN : TxSave(ok)
    \/ \E ok \in BOOLEAN : TxOutbox(ok)
    \/ \E ok \in BOOLEAN : TxCommit(ok)
    \/ RelayFind(Local)
    \/ \E ok \in BOOLEAN : RelayPublish(Local, ok)
    \/ RelayMark(Local)
    \/ RelayFail(Local)
    \/ \E e \in RecIds : DeadLetterCreate(Local, e)
    \/ DeadLetterDelete(Local)
    \/ Crash(Local)

SpecOutbox == Init /\ [][NextOutbox]_vars

\* The relay worker polls every second (setInterval): each of its steps is
\* taken when it stays possible.
FairOutbox ==
    /\ Init
    /\ [][NextOutbox]_vars
    /\ WF_vars(RelayFind(Local))
    /\ WF_vars(\E ok \in BOOLEAN : RelayPublish(Local, ok))
    /\ WF_vars(RelayMark(Local))
    /\ WF_vars(RelayFail(Local))
    /\ WF_vars(\E e \in RecIds : DeadLetterCreate(Local, e))
    /\ WF_vars(DeadLetterDelete(Local))

\* Two instances of the orders service: two relay workers on one outbox.
NextRelays ==
    \/ \E o \in Orders : TxBegin(o)
    \/ \E ok \in BOOLEAN : TxSave(ok)
    \/ \E ok \in BOOLEAN : TxOutbox(ok)
    \/ \E ok \in BOOLEAN : TxCommit(ok)
    \/ \E w \in Workers : RelayFind(w)
    \/ \E w \in Workers, ok \in BOOLEAN : RelayPublish(w, ok)
    \/ \E w \in Workers : RelayMark(w)
    \/ \E w \in Workers : RelayFail(w)
    \/ \E w \in Workers, e \in RecIds : DeadLetterCreate(w, e)
    \/ \E w \in Workers : DeadLetterDelete(w)
    \/ \E w \in Workers : Crash(w)

SpecRelays == Init /\ [][NextRelays]_vars

\* two instances, each worker fair (used to try the liveness properties
\* of the outbox with concurrent workers)
FairRelays ==
    /\ Init
    /\ [][NextRelays]_vars
    /\ \A w \in Workers :
          /\ WF_vars(RelayFind(w))
          /\ WF_vars(\E ok \in BOOLEAN : RelayPublish(w, ok))
          /\ WF_vars(RelayMark(w))
          /\ WF_vars(RelayFail(w))
          /\ WF_vars(\E e \in RecIds : DeadLetterCreate(w, e))
          /\ WF_vars(DeadLetterDelete(w))

(* ------------------ the orders service as a process ------------------- *)

NextProcess ==
    \/ \E p \in Prices : UpdateTicket(p)
    \/ \E m \in pool : OrdersOnMessage(m)
    \/ \E m \in acked : Redeliver(m)
    \/ Restart

SpecProcess == Init /\ [][NextProcess]_vars

(* ---------------------------- consumer groups -------------------------- *)

NextGroups ==
    \/ \E o \in Orders : BusPublish(o)
    \/ \E g \in Groups, o \in Orders, i \in Instances : BusDeliver(g, o, i)
    \/ \E g \in Groups, o \in Orders : AckWaitElapsed(g, o)
    \/ \E g \in Groups, o \in Orders, i \in Instances, ok \in BOOLEAN :
          InstanceDone(g, o, i, ok)

SpecGroups == Init /\ [][NextGroups]_vars

(* ----------------------- concurrent reservations ----------------------- *)

\* The orders service handling two reserve requests at once, and the
\* expiration of the orders they create.
NextReserve ==
    \/ \E r \in Reservers : ReserveCheck(r)
    \/ \E r \in Reservers, o \in Orders : ReserveSave(r, o)
    \/ \E r \in Reservers : ReserveDone(r)
    \/ \E m \in pool : ExpirationOrderCreatedListener(m)
    \/ \E o \in Orders : ExpirationFire(o)
    \/ \E m \in pool : ExpirationCompleteListener(m)

SpecReserve == Init /\ [][NextReserve]_vars

(* --------------------- expiry of an unpaid order ----------------------- *)

\* The workflow of an order that is never paid, with the expiration service
\* as a process that stops and starts.
NextExpiry ==
    \/ \E o \in Orders : NewOrder(o)
    \/ \E m \in pool : SchedulerListen(m)
    \/ \E o \in Orders : SchedulerFire(o)
    \/ SchedulerStop
    \/ SchedulerStart
    \/ \E m \in pool : ExpirationCompleteListener(m)
    \/ \E m \in pool : TicketsOrderCreatedListener(m)
    \/ \E m \in pool : TicketsOrderCancelledListener(m)
    \/ \E m \in acked : Redeliver(m)

SpecExpiry == Init /\ [][NextExpiry]_vars

\* Fair delivery: the bus delivers an unacknowledged message again and
\* again, a job fires when its delay is over, and the container of the
\* expiration service is started again.
FairExpiry ==
    /\ Init
    /\ [][NextExpiry]_vars
    /\ \A m \in FlowMsgs :
          /\ WF_vars(SchedulerListen(m))
          /\ WF_vars(ExpirationCompleteListener(m))
          /\ WF_vars(TicketsOrderCreatedListener(m))
          /\ WF_vars(TicketsOrderCancelledListener(m))
    /\ \A o \in Orders : WF_vars(SchedulerFire(o))
    /\ WF_vars(SchedulerStart)

(* --------------------------- startup ----------------------------------- *)

NextStartup ==
    \/ \E ok \in BOOLEAN : AssertEnv(ok)
    \/ OnMessage
    \/ \E ok \in BOOLEAN, registered \in BOOLEAN : NatsConnect(ok, registered)
    \/ Listen
    \/ \E ok \in BOOLEAN : MongoConnect(ok)
    \/ AppListen
    \/ StartCatch

SpecStartup == Init /\ [][NextStartup]_vars

\* start() runs: every await returns, with a connection or with an error
\* (serverSelectionTimeoutMS: 5000), and every delay ends
FairStartup ==
    /\ Init
    /\ [][NextStartup]_vars
    /\ WF_vars(\E ok \in BOOLEAN : AssertEnv(ok))
    /\ WF_vars(\E ok \in BOOLEAN, registered \in BOOLEAN : NatsConnect(ok, registered))
    /\ WF_vars(Listen)
    /\ WF_vars(\E ok \in BOOLEAN : MongoConnect(ok))
    /\ WF_vars(AppListen)
    /\ WF_vars(StartCatch)

(* -------------------------- shutdown ----------------------------------- *)

NextShutdown ==
    \/ HttpWrite
    \/ HttpSave
    \/ HttpPublish
    \/ HttpRespond
    \/ BusHandle
    \/ Signal
    \/ Drop
    \/ CloseEvent
    \/ Start

SpecShutdown == Init /\ [][NextShutdown]_vars

\* close() completes, and a connection that is lost is given up: the client
\* emits 'close'
FairShutdown ==
    /\ Init
    /\ [][NextShutdown]_vars
    /\ WF_vars(CloseEvent)

(* ------------------------- the delayed queue --------------------------- *)

NextExpiration ==
    \/ \E o \in Orders, expiresAt \in Times, now \in Times :
          ExpirationOnMessage(o, expiresAt, now)
    \/ QueueProcess

SpecExpiration == Init /\ [][NextExpiration]_vars

(* ------------------------- concurrent writers -------------------------- *)

NextWriters ==
    \/ \E w \in Writers, p \in Prices : WriterRead(w, p)
    \/ \E w \in Writers : WriterSave(w)
    \/ \E w \in Writers : WriterDone(w)

SpecWriters == Init /\ [][NextWriters]_vars

(* ------------------------- concurrent payments ------------------------- *)

\* The payments service handling several requests at once: every await of
\* the handler is a point where another request runs.
NextPay ==
    \/ \E o \in Orders : NewOrder(o)
    \/ \E m \in pool : PaymentsOrderCreatedListener(m)
    \/ \E m \in pool : PaymentCreatedListener(m)
    \/ \E r \in Reqs, o \in Orders, u \in Users : PayCheck(r, o, u)
    \/ \E r \in Reqs, ok \in BOOLEAN : PayCharge(r, ok)
    \/ \E r \in Reqs : PaySave(r)
    \/ \E m \in acked : Redeliver(m)

SpecPay == Init /\ [][NextPay]_vars

\* The payments service with the orders it hears of being paid, expiring
\* and cancelled while requests for them arrive one after the other or at once.
NextPayments ==
    \/ \E o \in Orders : NewOrder(o)
    \/ \E o \in Orders : ExpirationFire(o)
    \/ \E m \in pool : ExpirationOrderCreatedListener(m)
    \/ \E m \in pool : ExpirationCompleteListener(m)
    \/ \E m \in pool : PaymentCreatedListener(m)
    \/ \E m \in pool : PaymentsOrderCreatedListener(m)
    \/ \E m \in pool : PaymentsOrderCancelledListener(m)
    \/ \E r \in Reqs, o \in Orders, u \in Users : PayCheck(r, o, u)
    \/ \E r \in Reqs, ok \in BOOLEAN : PayCharge(r, ok)
    \/ \E r \in Reqs : PaySave(r)

SpecPayments == Init /\ [][NextPayments]_vars

\* The payment write path step by step, with concurrent requests.
NextPayPath ==
    \/ \E o \in Orders : NewOrder(o)
    \/ \E m \in pool : PaymentsOrderCreatedListener(m)
    \/ \E m \in pool : PaymentCreatedListener(m)
    \/ \E r \in Reqs, o \in Orders, u \in Users : PayCheck(r, o, u)
    \/ \E r \in Reqs, ok \in BOOLEAN : PayCharge(r, ok)
    \/ \E r \in Reqs, ok \in BOOLEAN : PaymentSave(r, ok)
    \/ \E r \in Reqs : PaymentRespond(r)
    \/ \E r \in Reqs, ok \in BOOLEAN : PaymentPublished(r, ok)
    \/ \E r \in Reqs : PaymentStop(r)

SpecPayPath == Init /\ [][NextPayPath]_vars

\* The handler's continuations run, the pending publish ends one way or
\* the other, and the orders service's listener handles what it is delivered.
FairPayPath ==
    /\ SpecPayPath
    /\ \A r \in Reqs : /\ WF_vars(\E ok \in BOOLEAN : PayCharge(r, ok))
                        /\ WF_vars(\E ok \in BOOLEAN : PaymentSave(r, ok))
                        /\ WF_vars(PaymentRespond(r))
                        /\ WF_vars(\E ok \in BOOLEAN : PaymentPublished(r, ok))
    /\ \A o \in Orders, r \in Reqs :
            WF_vars(PaymentCreatedListener(Msg("PaymentCreated", "orders", o, 0, r)))

(* ------------------------- ticket reservation -------------------------- *)

\* The tickets service's side of the workflow: its listeners read and write
\* the ticket only, so they are checked apart from the payments service.
NextTickets ==
    \/ \E o \in Orders : NewOrder(o)
    \/ \E o \in Orders : ExpirationFire(o)
    \/ \E m \in pool : ExpirationOrderCreatedListener(m)
    \/ \E m \in pool : ExpirationCompleteListener(m)
    \/ \E m \in pool : TicketsOrderCreatedListener(m)
    \/ \E m \in pool : TicketsOrderCancelledListener(m)
    \/ \E m \in acked : Redeliver(m)

SpecTickets == Init /\ [][NextTickets]_vars

\* The bus redelivers an unacknowledged message until it is acknowledged
\* (every listener runs again and again on what stays in the pool), and a
\* delayed job fires when its delay is over.
FairTickets ==
    /\ Init
    /\ [][NextTickets]_vars
    /\ \A m \in FlowMsgs :
          /\ WF_vars(TicketsOrderCreatedListener(m))
          /\ WF_vars(TicketsOrderCancelledListener(m))
          /\ WF_vars(ExpirationOrderCreatedListener(m))
          /\ WF_vars(ExpirationCompleteListener(m))
    /\ \A o \in Orders : WF_vars(ExpirationFire(o))

(* --------------------- properties: ticket replication ------------------ *)

Range(seq) == {seq[i] : i \in 1..Len(seq)}

HandledTicketUpdated == last.outcome # "none" /\ last.msg.type = "TicketUpdated"

\* C1: a listener applies an event only when event.version = local.version + 1;
\* an event ahead of the replica (event.version - 1 > local.version) is not
\* applied, so the versions applied to the replica are 1, 2, 3, ... in order.
C1_AppliesOnlyNextVersion ==
    /\ applied = [i \in 1..Len(applied) |-> i]
    /\ replica.version = Len(applied)
    /\ HandledTicketUpdated =>
          /\ last.outcome = "applied" => last.msg.version = last.local + 1
          /\ last.msg.version - 1 > last.local =>
                last.outcome = "thrown" /\ last.msg.version \notin Range(applied)

\* an event ahead of the replica was delivered and withheld: it is still in
\* the pool and the replica is as it was
C1_Witness ==
    /\ HandledTicketUpdated
    /\ last.outcome = "thrown"
    /\ last.msg.version - 1 > last.local
    /\ last.msg \in pool
    /\ replica.version = last.local

\* C2: the version of the ticket and of its replica never decreases from one
\* state to the next, and no event version is applied to the replica twice.
C2_VersionMonotoneNoDoubleApply ==
    /\ [][/\ replica'.version >= replica.version
          /\ ticket'.version >= ticket.version]_vars
    /\ [](\A i, j \in 1..Len(applied) : applied[i] = applied[j] => i = j)

\* a duplicate of an applied event was delivered out of order and the replica
\* still went through every version
C2_Witness ==
    /\ dups >= 1
    /\ replica.version = MaxVersion
    /\ ticket.version = MaxVersion
    /\ \E m \in pool : m.version < replica.version

C4_StaleEventAcknowledged ==
    [][\A m \in pool :
          (m.version - 1 < replica.version /\ TicketUpdatedListener(m))
              => (m \notin pool' /\ replica' = replica)]_vars

Published == pool \cup acked

Cancellations(msgs, o) == {x \in msgs : x.type = "OrderCancelled" /\ x.id = o}

\* C6: a ticket reserved with orderId = A does not become available by an
\* OrderCancelled event of an order B # A; the ticket's orderId stays A.
C6_ForeignCancellationKeepsReservation ==
    [][\A m \in pool :
          (/\ ticket.orderId \in Orders
           /\ ticket.orderId # m.id
           /\ TicketsOrderCancelledListener(m))
              => ticket'.orderId = ticket.orderId]_vars

\* the ticket is held by one order and the cancellation of another was handled
C6_Witness ==
    /\ last.msg.type = "OrderCancelled" /\ last.msg.group = "tickets"
    /\ last.pre \in Orders
    /\ last.pre # last.msg.id
    /\ last.outcome = "noop"
    /\ ticket.orderId = last.pre
    /\ last.msg \in acked

\* C7: an ExpirationComplete event for an order that is Complete is a no-op:
\* the order stays Complete at the same version, no OrderCancelled event is
\* emitted and the message is acknowledged (first delivery or redelivery).
C7_ExpirationOfPaidOrderIsNoop ==
    [][\A m \in pool :
          (order[m.id].status = "Complete" /\ ExpirationCompleteListener(m))
              => /\ order' = order
                 /\ m \notin pool' /\ m \in acked'
                 /\ Cancellations(pool' \cup acked', m.id) = Cancellations(Published, m.id)]_vars

\* the expiration of a paid order was handled
C7_Witness ==
    /\ last.msg.type = "ExpirationComplete"
    /\ last.pre = "Complete"
    /\ last.outcome = "noop"
    /\ order[last.msg.id] = [status |-> "Complete", version |-> last.local]
    /\ last.msg \in acked
    /\ Cancellations(Published, last.msg.id) = {}

\* C8: a PaymentCreated event for an order that is Cancelled leaves the order
\* Cancelled and is acknowledged: no error, no redelivery.
C8_PaymentOfCancelledOrderIsNoop ==
    [][\A m \in pool :
          (order[m.id].status = "Cancelled" /\ PaymentCreatedListener(m))
              => /\ order' = order
                 /\ m \notin pool' /\ m \in acked'
                 /\ last'.outcome = "noop"]_vars

\* the payment of a cancelled order was handled
C8_Witness ==
    /\ last.msg.type = "PaymentCreated"
    /\ last.pre = "Cancelled"
    /\ last.outcome = "noop"
    /\ order[last.msg.id].status = "Cancelled"
    /\ last.msg \in acked

\* C9: the status of an order changes only from Created to Complete, by a
\* PaymentCreated event, or from Created to Cancelled, by an
\* ExpirationComplete event; the status of a Complete or Cancelled order
\* does not change.
C9_OrderTransitions ==
    [][\A o \in Orders :
          (order[o].status # "none" /\ order'[o].status # order[o].status)
              => /\ order[o].status = "Created"
                 /\ \/ /\ order'[o].status = "Complete"
                       /\ \E m \in pool : /\ m.type = "PaymentCreated" /\ m.id = o
                                          /\ PaymentCreatedListener(m)
                    \/ /\ order'[o].status = "Cancelled"
                       /\ \E m \in pool : /\ m.type = "ExpirationComplete" /\ m.id = o
                                          /\ ExpirationCompleteListener(m)]_vars

\* one order was cancelled by its expiration, the next was paid, and the paid
\* one has had its expiration delivered since
C9_Witness ==
    /\ order["o1"] = [status |-> "Cancelled", version |-> 1]
    /\ order["o2"] = [status |-> "Complete", version |-> 1]
    /\ Msg("ExpirationComplete", "orders", "o2", 0, 0) \in acked

\* C10: no payment request ends as a wrong success: no request has been
\* answered 201, with its Payment record, for an order that is Cancelled in
\* the orders service.
C10_NoPaymentForCancelledOrder ==
    \A r \in 1..MaxReq :
        (req[r].pc = "201" /\ payments[req[r].order] > 0)
            => order[req[r].order].status # "Cancelled"

(* --------------------- properties: concurrent payments ----------------- *)

\* C11: there is at most one Payment record per order, whatever the
\* interleaving of concurrent or repeated payment requests for the order.
C11_AtMostOnePaymentPerOrder ==
    \A o \in Orders : payments[o] <= 1

(* --------------------- properties: ticket reservation ------------------ *)

\* C12: the ticket's orderId is set only if the order with that id exists and
\* is not terminal (neither Complete nor Cancelled).
C12_ReservedOnlyByLiveOrder ==
    ticket.orderId # NoOrder => order[ticket.orderId].status = "Created"

(* -------------------------- properties: outbox ------------------------- *)

\* the records written for an order, in the outbox or moved to the dead letters
RecordsOf(o) == {r \in RecIds : outbox[r].state # "none" /\ outbox[r].order = o}

InDeadLetterOnly(r) == dlq[r] > 0 /\ outbox[r].state = "deleted"

C15_NoDoublePublish ==
    crashes.n = 0 => \A r \in RecIds : Len(sent[r]) <= 1

C17_EventCarriesVersionOfItsMutation ==
    \A r \in RecIds :
        /\ outbox[r].state # "none" => outbox[r].version = hist[r]
        /\ \A i \in 1..Len(sent[r]) :
              /\ sent[r][i] = hist[r]
              /\ outbox[r].type = "OrderCreated" => sent[r][i] = 0

\* OrderCreated was published with version 0 when its order was cancelled
\* and at version 1 already, and OrderCancelled was published with version 1
C17_Witness ==
    /\ outbox[1].type = "OrderCreated" /\ outbox[2].type = "OrderCancelled"
    /\ outbox[2].order = outbox[1].order
    /\ order[outbox[1].order] = [status |-> "Cancelled", version |-> 1]
    /\ sent[2] = <<1>>
    /\ sent[1] = <<0>>
    /\ outbox[1].published /\ outbox[2].published

(* --------------------- properties: concurrent writers ------------------ *)

\* C18: of two writers that read the ticket at the same version v at most one
\* is accepted, and its write sets the version to exactly v + 1; the write of
\* the other matches no row, ends in a stale-version conflict and leaves the
\* ticket unchanged.
C18_OneWriterPerVersion ==
    /\ [](\A a, b \in accepts : a[2] = b[2] => a = b)
    /\ [][\A w \in Writers :
            WriterSave(w) =>
                \/ /\ wr'[w].pc = "saved"
                   /\ ticket.version = wr[w].seen
                   /\ ticket'.version = wr[w].seen + 1
                \/ /\ wr'[w].pc = "StaleVersionError"
                   /\ ticket.version # wr[w].seen
                   /\ ticket' = ticket]_vars

\* both writers read version 0: one was accepted, the other got the conflict
\* and the ticket is at version 1 with the price of the accepted write
C18_Witness ==
    /\ wr["request"] = [pc |-> "saved", seen |-> 0, price |-> 20]
    /\ wr["listener"] = [pc |-> "StaleVersionError", seen |-> 0, price |-> 10]
    /\ ticket.version = 1 /\ ticket.price = 20
    /\ accepts = {<<"request", 0>>}

(* ------------------- properties: process, consumer groups -------------- *)

\* C19: a handler exception or failed precondition in a listener (stale
\* version, missing entity) only leaves the message unacknowledged for
\* redelivery: the process of the service does not exit because of it.
C19_ListenerFailureKeepsProcess ==
    [][\A m \in pool :
          (OrdersOnMessage(m) /\ last'.outcome = "thrown")
              => (m \in pool' /\ proc' = "running")]_vars

\* C20: at any time at most one instance of a consumer group is handling a
\* message, also while the message is redelivered after ackWait, and every
\* group subscribed to the subject has received a published message.
C20_OneInstancePerGroup ==
    \A o \in Orders :
        /\ \A g \in Groups : Cardinality(sub[g][o].busy) <= 1
        /\ (\E g \in Groups : sub[g][o].state # "none")
              => \A g \in Groups : sub[g][o].state # "none"

(* ------------------ properties: end-to-end scenarios ------------------- *)

\* the last message handled was an OrderCancelled at the tickets service
HandledCancellation ==
    /\ last.outcome # "none"
    /\ last.msg.type = "OrderCancelled" /\ last.msg.group = "tickets"

\* C21: delivering the same OrderCancelled event (order O, version 1) twice
\* to the tickets service releases the ticket reserved by O once: after the
\* first delivery the ticket is available, one version higher, and the second
\* delivery changes neither its orderId nor its version and emits no
\* ticket event.
C21_CancellationTwiceReleasesOnce ==
    /\ []((HandledCancellation /\ last.outcome = "applied")
            => /\ last.pre = last.msg.id
               /\ ticket.orderId = NoOrder
               /\ ticket.version = last.local + 1)
    /\ [][\A m \in pool :
            (/\ HandledCancellation /\ last.msg = m /\ m.version = 1
             /\ TicketsOrderCancelledListener(m))
                => /\ ticket' = ticket
                   /\ pool' = pool \ {m}
                   /\ last'.outcome = "noop"]_vars

\* OrderCancelled of o1 at version 1 is the only cancellation published; it
\* released the ticket, was delivered again and left the ticket as it was
C21_Witness ==
    /\ last = [msg |-> Msg("OrderCancelled", "tickets", "o1", 1, 0),
               outcome |-> "noop", local |-> 2, pre |-> NoOrder]
    /\ ticket.orderId = NoOrder /\ ticket.version = 2
    /\ dups = 1
    /\ \A x \in Cancellations(Published, "o1") : x.version = 1
    /\ order["o2"].status = "none"
    /\ last.msg \in acked

\* the OrderCreated event of order o, as the tickets service receives it
OrderCreatedAtTickets(o) == Msg("OrderCreated", "tickets", o, 0, 0)

\* C22: after an order is created at version 0 for an available ticket, and
\* with its OrderCreated event delivered to the tickets service (again and
\* again until acknowledged), the ticket eventually is reserved with the
\* orderId of that order.
C22_CreatedOrderEventuallyReservesTicket ==
    \A o \in Orders :
        (/\ order[o] = [status |-> "Created", version |-> 0]
         /\ ticket.orderId = NoOrder
         /\ OrderCreatedAtTickets(o) \in pool)
            ~> (ticket.orderId = o)

(* ------------------------ properties: expiration ----------------------- *)

\* C23: each handling of an OrderCreated event by the expiration listener
\* adds exactly one job to the delayed queue; the job's data carries the id
\* of that order and its delay is at least 0, whatever expiresAt is.
C23_OneJobWithNonNegativeDelay ==
    /\ [][\A o \in Orders, expiresAt \in Times, now \in Times :
            ExpirationOnMessage(o, expiresAt, now)
                => /\ Len(queue') = Len(queue) + 1
                   /\ SubSeq(queue', 1, Len(queue)) = queue
                   /\ queue'[Len(queue')].orderId = o
                   /\ queue'[Len(queue')].delay >= 0]_vars
    /\ [](\A i \in 1..Len(queue) : queue[i].delay >= 0)

\* an event whose expiresAt is in the past was handled: its job is the only
\* one in the queue
C23_Witness ==
    /\ evt.id = "o1"
    /\ evt.expiresAt < evt.now
    /\ Len(queue) = 1
    /\ queue[1].orderId = "o1" /\ queue[1].delay >= 0

(* ------------------------- properties: shutdown ------------------------ *)

\* C24: when the connection to the bus closes, by a drop or by the close()
\* of SIGINT / SIGTERM, the service gets the close event and stops: the
\* process has exited in every state in which the connection is closed, it
\* accepts no HTTP write and handles no event after the close event, and a
\* connection that is closing or lost leads to the exit.
C24_CloseStopsService ==
    /\ [](conn = "closed" => proc = "exited")
    /\ [](\A w \in work : w[2] # "closed")
    /\ [][conn = "closed" => ((work' = work /\ http' = http) \/ conn' = "open")]_vars
    /\ (conn \in {"closing", "lost"}) ~> (proc = "exited")

\* SIGTERM closed the connection; a write was accepted while it was closing,
\* and the process exited with the close event
C24_Witness ==
    /\ conn = "closed"
    /\ proc = "exited"
    /\ <<"http", "closing">> \in work
    /\ <<"event", "open">> \in work
    /\ http = "saved"

(* ------------------------- properties: startup ------------------------- *)

\* C25: the connection to the store is established or given up: connectMongo
\* returns with the first attempt that succeeds, makes at most 20 attempts,
\* and after the 20th failure in a row throws the error that ends start()
\* with exit code 1; it does not retry forever.
C25_ConnectMongoTerminates ==
    /\ [](boot.tries <= max /\ boot.i <= max)
    /\ [][MongoConnect(TRUE) => (boot'.pc = "http" /\ boot'.tries = boot.i)]_vars
    /\ [][(boot.pc = "mongo" /\ boot'.pc = "fatal")
            => (boot.i = max /\ boot'.tries = max /\ MongoConnect(FALSE))]_vars
    /\ [](boot.pc \in {"http", "serving"} => boot.tries = boot.i)
    /\ (boot.pc = "mongo") ~> (boot.pc \in {"serving", "exit1"})
    /\ (boot.pc = "fatal") ~> (boot.pc = "exit1")

\* twenty attempts failed and start() ended with exit code 1
C25_Witness ==
    /\ boot.pc = "exit1"
    /\ boot.tries = max
    /\ boot.i = max
    /\ boot.wait = 5000

\* a failed attempt that follows a failed attempt of the same loop
NextFailedAttempt == MongoConnect(FALSE) /\ boot.tries >= 1

\* C26, as stated: the wait after failed attempt i + 1 is twice the wait
\* after failed attempt i until the cap of 5000 ms is reached, and it never
\* exceeds the cap.
C26_WaitDoublesUpToCap ==
    /\ [][NextFailedAttempt => boot'.wait = Capped(2 * boot.wait)]_vars
    /\ [](boot.wait <= 5000)

\* C26, amended: the wait after failed attempt i is min(5000, 500 * i) for
\* the store and min(5000, 800 * attempt) for the bus: it grows by a fixed
\* step with every failed attempt until the cap of 5000 ms is reached, stays
\* there, and never exceeds the cap.
C26_WaitGrowsByStepUpToCap ==
    /\ [][MongoConnect(FALSE) => boot'.wait = Capped(500 * boot.i)]_vars
    /\ [][NextFailedAttempt => boot'.wait = Capped(boot.wait + 500)]_vars
    /\ [][(NatsConnect(FALSE, TRUE) /\ boot.attempt >= 2)
            => boot'.wait = Capped(boot.wait + 800)]_vars
    /\ [](boot.wait <= 5000)
    /\ [](boot.prev <= boot.wait)

\* the third failed attempt on the store waited 1500 ms after the 1000 ms of
\* the second, and a later one waited the cap after the cap
C26_Witness ==
    \/ boot.pc = "mongo" /\ boot.tries = 3 /\ boot.prev = 1000 /\ boot.wait = 1500
    \/ boot.pc = "mongo" /\ boot.tries = 12 /\ boot.prev = 5000 /\ boot.wait = 5000

(* ---------------------- properties: expiration flow -------------------- *)

\* C27: whatever the deliveries and redeliveries of OrderCreated and
\* ExpirationComplete, and with several expiration jobs for one order, an
\* order is set to Cancelled at most once (a cancelled order is at the
\* version of its cancellation) and at most one OrderCancelled event is
\* published for it to each subscriber.
C27_CancelledAtMostOnce ==
    \A o \in Orders :
        /\ order[o].status = "Cancelled" => order[o].version = 1
        /\ \A x, y \in Cancellations(Published, o) : x.group = y.group => x = y

\* the part of C28 on the order alone: every order that is created and
\* never paid is eventually Cancelled
UnpaidOrderEventuallyCancelled ==
    \A o \in Orders :
        (order[o].status = "Created") ~> (order[o].status = "Cancelled")

LiveOrders == {o \in Orders : order[o].status = "Created"}

\* C29: in every reachable state at most one non-terminal order references
\* the ticket, whatever the interleaving of concurrent reserve requests: of
\* two concurrent reservations of the available ticket at most one succeeds.
C29_AtMostOneLiveOrderPerTicket ==
    Cardinality(LiveOrders) <= 1

(* ------------------------ properties: the gateway ---------------------- *)

\* C30: the gateway is charged at most once per order: every charge call
\* for an order carries the order id as its idempotency key, so repeated
\* and concurrent payment requests for the order end in at most one
\* distinct charge at the gateway.
C30_AtMostOneExternalChargePerOrder ==
    \A o \in Orders :
        /\ Cardinality(gateway[o]) <= 1
        /\ gateway[o] \subseteq {o}
        /\ charges[o] > 0 => gateway[o] = {o}

\* two concurrent requests for the same order both called the gateway, and
\* the gateway holds one charge for the order
C30_Witness ==
    /\ charges["o1"] = 2
    /\ gateway["o1"] = {"o1"}
    /\ \A r \in Reqs : req[r].order = "o1" /\ req[r].pc \in {"charged", "201"}

(* --------------------- properties: the payment request ----------------- *)

\* the answers of POST /api/payments that reject the request
Rejections == {"NotFound", "NotAuthorized", "BadRequest"}

\* C31: a payment request is rejected, and has no side effect (no gateway
\* charge, no Payment record, no PaymentCreated event), when the order is
\* unknown (NotFound), belongs to another user (NotAuthorized), is Cancelled
\* or Complete in the payments service (BadRequest), or has a Payment record
\* already (BadRequest); a rejected request does nothing afterwards.
C31_RejectedWithoutSideEffect ==
    [][/\ \A r \in Reqs, o \in Orders, u \in Users :
            PayCheck(r, o, u) =>
                LET st == porder[o].status
                    rejected == \/ st \in {"none", "Cancelled", "Complete"}
                                \/ u # Owner
                                \/ payments[o] > 0
                IN  /\ st = "none" => req'[r].pc = "NotFound"
                    /\ st # "none" /\ u # Owner => req'[r].pc = "NotAuthorized"
                    /\ st \in {"Cancelled", "Complete"} /\ u = Owner
                          => req'[r].pc = "BadRequest"
                    /\ st = "Created" /\ u = Owner /\ payments[o] > 0
                          => req'[r].pc = "BadRequest"
                    /\ rejected => /\ req'[r].pc \in Rejections
                                   /\ UNCHANGED <<payments, charges, gateway, pool>>
       /\ \A r \in Reqs : req[r].pc \in Rejections => req'[r] = req[r]
       /\ \A o \in Orders :
            \/ payments'[o] # payments[o]
            \/ charges'[o] # charges[o]
            \/ gateway'[o] # gateway[o]
            \/ \E m \in pool' \ pool : m.type = "PaymentCreated" /\ m.id = o
            => \E r \in Reqs : /\ req[r].order = o
                                /\ req[r].pc \in {"charging", "charged"}
                                /\ req'[r].pc \notin Rejections]_vars

\* a request for an order that was paid for is rejected: the only charge,
\* Payment record and event are those of the request that was answered 201
C31_Witness ==
    /\ req[1] = [pc |-> "201", order |-> "o1"]
    /\ req[2] = [pc |-> "BadRequest", order |-> "o1"]
    /\ porder["o1"].status = "Created"
    /\ payments["o1"] = 1 /\ charges["o1"] = 1 /\ gateway["o1"] = {"o1"}

\* the requests for order o that saved a Payment record
Saved(o) == {r \in Reqs : /\ req[r].order = o
                          /\ req[r].pc \in {"saved", "201", "published",
                                            "unpublished", "stopped"}}

\* the requests for order o whose charge succeeded
Charged(o) == Saved(o) \cup {r \in Reqs : /\ req[r].order = o
                                         /\ req[r].pc \in {"charged", "SaveError"}}

C33_PaymentEventuallyPublishedAndOrderComplete ==
    \A o \in Orders :
        (payments[o] > 0)
            ~> (/\ \E m \in pool \cup acked : m.type = "PaymentCreated" /\ m.id = o
                /\ order[o].status = "Complete")

(* ---------------------- properties: the relay worker ------------------- *)

\* worker w calls publish for the record at hand
Attempts(w) == relay[w].pc = "publish" /\ relay'[w].pc \in {"mark", "fail"}

\* C34: the relay worker never attempts to publish a record whose attempts
\* have reached the retry ceiling MAX_RETRIES: the attempts of a record stay
\* within the ceiling, they only grow, by 1 and on a failed publish, and
\* published never goes from true back to false.
C34_NoAttemptAtTheCeiling ==
    /\ [](\A r \in RecIds : outbox[r].attempts <= MAX_RETRIES)
    /\ [][/\ \A w \in Workers :
               Attempts(w) => outbox[Min(relay[w].batch)].attempts < MAX_RETRIES
          /\ \A r \in RecIds :
               /\ outbox'[r].attempts \in {outbox[r].attempts, outbox[r].attempts + 1}
               /\ outbox'[r].attempts # outbox[r].attempts
                     => \E w \in Workers : /\ relay[w].pc = "fail"
                                           /\ Min(relay[w].batch) = r
               /\ outbox[r].published => outbox'[r].published]_vars

\* C35: in each relay cycle the worker selects the oldest unpublished
\* records by createdAt (those the query takes: attempts below the ceiling),
\* at most BATCH_SIZE of them, and attempts them in ascending createdAt
\* order; a failed publish changes only the record it was for (attempts) and
\* the cycle goes on to the remaining records of the batch.
C35_OldestFirstAndFailureIsolated ==
    [][\A w \in Workers :
         LET B == relay[w].batch
             B1 == relay'[w].batch
             \* the failed publish counts against record r and only that
             FailureOf(r) ==
                 /\ \A q \in RecIds \ {r} : outbox'[q] = outbox[q]
                 /\ outbox'[r] = [outbox[r] EXCEPT !.attempts = @ + 1]
                 /\ B1 = B \ {r}
                 /\ relay'[w].pc = IF B1 = {} THEN "idle" ELSE "publish"
                 /\ UNCHANGED <<sent, dlq, order>>
         IN  relay'[w] # relay[w] /\ crashes' = crashes =>
                 /\ relay[w].pc = "idle" /\ relay'[w].pc = "publish"
                       => /\ B1 \subseteq Eligible
                          /\ Cardinality(B1) <= BATCH_SIZE
                          /\ Cardinality(B1) = BATCH_SIZE \/ B1 = Eligible
                          /\ \A b \in B1, r \in Eligible \ B1 : b < r
                 /\ relay[w].pc \in {"publish", "mark", "fail"}
                       => \A r \in RecIds :
                              outbox'[r] # outbox[r] \/ sent'[r] # sent[r]
                                  => r \in B /\ \A b \in B : r <= b
                 /\ relay[w].pc = "fail"
                       => \E r \in B : (\A b \in B : r <= b) /\ FailureOf(r)]_vars

\* a cycle took the two oldest of three unpublished records; the publish
\* of the oldest failed and the cycle has published the next one
C35_Witness ==
    /\ relay[Local] = [pc |-> "mark", batch |-> {2}]
    /\ outbox[1].state = "active" /\ outbox[1].attempts = 1 /\ ~outbox[1].published
    /\ outbox[2].attempts = 0 /\ Len(sent[2]) = 1 /\ sent[1] = <<>>
    /\ outbox[3].state = "active" /\ outbox[3].attempts = 0 /\ sent[3] = <<>>
    /\ crashes.n = 0

(* ------------------------ properties: the startup ---------------------- *)

\* C36: no event handler of a service touches the entity store before the
\* store connection is established: a message delivered to a listener is
\* handled only after connectMongo has succeeded.
C36_NoMessageHandledBeforeStoreConnected ==
    boot.onMessage \subseteq {"connected"}

\* C37: a service accepts HTTP requests only after the required environment
\* variables were found, the bus connection is established and the store
\* connection is established; if one of these steps fails the process exits
\* with code 1 and never listens.
C37_ListensOnlyAfterEnvBusStore ==
    /\ [](boot.pc \in {"http", "serving"}
            => /\ boot.env = "ok"
               /\ boot.clientId # "none"
               /\ boot.tries >= 1)
    /\ [](boot.pc \notin {"env", "fatal", "exit1"} => boot.env = "ok")
    /\ [](boot.pc \in {"listen", "mongo"} => boot.clientId # "none")
    /\ [][/\ boot'.pc = "serving" /\ boot.pc # "serving" => AppListen
          /\ boot'.pc = "http" /\ boot.pc # "http" => MongoConnect(TRUE)
          /\ boot'.pc = "listen" /\ boot.pc # "listen"
                => \E registered \in BOOLEAN : NatsConnect(TRUE, registered)
          /\ AssertEnv(FALSE) => boot'.pc = "fatal"
          /\ boot.pc = "nats" /\ boot'.pc \notin {"nats", "listen"} => boot'.pc = "fatal"
          /\ boot.pc = "mongo" /\ boot'.pc \notin {"mongo", "http"} => boot'.pc = "fatal"
          /\ boot.pc = "fatal" => boot'.pc = "exit1"
          /\ boot.pc = "exit1" => boot'.pc = "exit1"]_vars
    /\ (boot.pc = "fatal") ~> (boot.pc = "exit1")
    /\ <>(boot.pc \in {"serving", "exit1"})

\* the service listens, after four failed attempts on the store
C37_Witness ==
    /\ boot.pc = "serving"
    /\ boot.env = "ok" /\ boot.clientId = "base" /\ boot.tries = 5

\* C38: the payments service's connect loop to the bus makes at most 8
\* attempts and always ends: it stops at the first success; a failure
\* whose message does not contain 'clientID already registered' is rethrown
\* as soon as the attempt number is 3 or more; 'clientID already registered'
\* failures are retried up to attempt 8, after which startup fails; attempt
\* 1 uses the base client id and every later attempt a suffixed one.
C38_BusConnectLoopBounded ==
    /\ [](boot.attempt \in 1..8)
    /\ [][\A registered \in BOOLEAN :
            /\ NatsConnect(TRUE, registered)
                  => boot'.pc = "listen" /\ boot'.attempt = boot.attempt
            /\ NatsConnect(FALSE, registered)
                  => IF (~registered /\ boot.attempt >= 3) \/ boot.attempt = 8
                        THEN boot'.pc = "fatal" /\ boot'.attempt = boot.attempt
                        ELSE boot'.pc = "nats" /\ boot'.attempt = boot.attempt + 1]_vars
    /\ [][boot.pc = "nats" /\ boot' # boot
            => boot'.clientId = IF boot.attempt = 1 THEN "base" ELSE "suffixed"]_vars
    /\ [][boot.pc = "listen" => boot'.pc \in {"listen", "mongo"}]_vars
    /\ (boot.pc = "nats") ~> (boot.pc \in {"listen", "fatal"})

\* seven attempts failed with 'clientID already registered', the eighth
\* failed too, and startup has failed
C38_Witness ==
    /\ boot.pc = "exit1"
    /\ boot.attempt = 8
    /\ boot.clientId = "suffixed"
    /\ boot.wait = 5000
    /\ boot.tries = 0

=============================================================================
